---- MODULE Spec2Model ----
(***************************************************************************)
(* Model of Medical_Symptom_Chatbot: pipeline.py (class MedicalChatbot)    *)
(* and app.py (the Streamlit session around it).                           *)
(*                                                                         *)
(* Text is a sequence of one-character strings, so that lower(), strip(),  *)
(* split() and the `in` substring test are computed character by           *)
(* character as Python computes them.                                      *)
(***************************************************************************)
EXTENDS Integers, Sequences, FiniteSets, TLC

VARIABLES
    query,      \* text spec: the query handed to the text functions
    keywords,   \* text spec: the keyword list handed to extract_entity
    qtype,      \* text spec: result of detect_query_type, or "unset"
    entity,     \* text spec: outcome of extract_entity, or Unset
    files,      \* the data directory: the content of each of the four CSV files
    phase,      \* "new", "loaded" (inside __init__), "ready", "returned", "crashed"
    data,       \* self.data
    index,      \* self.index
    embed_log,  \* answers of the embedding calls build_semantic_index made
    last,       \* the last operation invoked on the chatbot and its outcome
    messages,   \* st.session_state.messages
    user_input, \* the text in the question box
    event       \* the last thing the user did in the session

text_vars == << query, keywords, qtype, entity >>

bot_vars == << files, phase, data, index, embed_log, last >>

session_vars == << messages, user_input, event >>

vars ==
    << query, keywords, qtype, entity, files, phase, data, index, embed_log, last,
       messages, user_input, event >>

----------------------------------------------------------------------------
(* Outcomes of a call: a returned value or a raised exception.             *)

Unset == [exc |-> "unset", val |-> << >>]

Ret(v) == [exc |-> "none", val |-> v]

Raise(e) == [exc |-> e, val |-> << >>]

----------------------------------------------------------------------------
(* Python str primitives on character sequences.                           *)

UpperChars ==
    << "A","B","C","D","E","F","G","H","I","J","K","L","M",
       "N","O","P","Q","R","S","T","U","V","W","X","Y","Z" >>

LowerChars ==
    << "a","b","c","d","e","f","g","h","i","j","k","l","m",
       "n","o","p","q","r","s","t","u","v","w","x","y","z" >>

Whitespace == {" ", "\t", "\n", "\r"}

\* str.lower() on one character
lower_char(c) ==
    IF \E i \in 1..Len(UpperChars) : UpperChars[i] = c
    THEN LowerChars[CHOOSE i \in 1..Len(UpperChars) : UpperChars[i] = c]
    ELSE c

\* str.lower()
lower(s) == [i \in 1..Len(s) |-> lower_char(s[i])]

\* sub occurs in s starting at position i (1-based)
occurs_at(sub, s, i) ==
    /\ i >= 1
    /\ i + Len(sub) - 1 <= Len(s)
    /\ SubSeq(s, i, i + Len(sub) - 1) = sub

\* Python `sub in s`
contains(sub, s) == \E i \in 1..(Len(s) - Len(sub) + 1) : occurs_at(sub, s, i)

\* str.find(): position of the first occurrence, 0 when there is none
find(sub, s) ==
    IF contains(sub, s)
    THEN CHOOSE i \in 1..(Len(s) - Len(sub) + 1) :
            /\ occurs_at(sub, s, i)
            /\ \A j \in 1..(i - 1) : ~occurs_at(sub, s, j)
    ELSE 0

\* str.split(sep) for a non-empty sep: left-to-right, non-overlapping
RECURSIVE split(_, _)
split(s, sep) ==
    LET i == find(sep, s)
    IN  IF i = 0
        THEN << s >>
        ELSE << SubSeq(s, 1, i - 1) >> \o split(SubSeq(s, i + Len(sep), Len(s)), sep)

\* str.strip(): drop leading and trailing whitespace
strip(s) ==
    LET keep == {i \in 1..Len(s) : s[i] \notin Whitespace}
    IN  IF keep = {}
        THEN << >>
        ELSE SubSeq(s, CHOOSE i \in keep : \A j \in keep : i <= j,
                       CHOOSE i \in keep : \A j \in keep : i >= j)

\* any(keyword in text for keyword in kws)
any_keyword_in(kws, text) == \E i \in 1..Len(kws) : contains(kws[i], text)

----------------------------------------------------------------------------
(* detect_query_type: the three keyword lists and the if/elif chain.       *)

medication_keywords ==
    << <<"m","e","d","i","c","i","n","e">>,
       <<"m","e","d","i","c","a","t","i","o","n">>,
       <<"d","r","u","g">>,
       <<"p","i","l","l">>,
       <<"t","a","b","l","e","t">>,
       <<"d","o","s","e">>,
       <<"d","o","s","a","g","e">>,
       <<"s","i","d","e"," ","e","f","f","e","c","t">>,
       <<"p","r","e","s","c","r","i","p","t","i","o","n">>,
       <<"i","b","u","p","r","o","f","e","n">>,
       <<"a","s","p","i","r","i","n">>,
       <<"p","a","r","a","c","e","t","a","m","o","l">> >>

condition_keywords ==
    << <<"s","y","m","p","t","o","m">>,
       <<"c","o","n","d","i","t","i","o","n">>,
       <<"d","i","s","e","a","s","e">>,
       <<"i","l","l","n","e","s","s">>,
       <<"d","i","a","g","n","o","s","i","s">>,
       <<"t","r","e","a","t","m","e","n","t">>,
       <<"w","h","a","t"," ","i","s">>,
       <<"h","a","v","e">>,
       <<"s","u","f","f","e","r","i","n","g"," ","f","r","o","m">>,
       <<"c","a","n","c","e","r">>,
       <<"d","i","a","b","e","t","e","s">>,
       <<"a","s","t","h","m","a">> >>

symptom_keywords ==
    << <<"p","a","i","n">>,
       <<"h","e","a","d","a","c","h","e">>,
       <<"f","e","v","e","r">>,
       <<"c","o","u","g","h">>,
       <<"n","a","u","s","e","a">>,
       <<"v","o","m","i","t","i","n","g">>,
       <<"d","i","z","z","i","n","e","s","s">>,
       <<"r","a","s","h">>,
       <<"s","w","e","l","l","i","n","g">>,
       <<"b","l","e","e","d","i","n","g">>,
       <<"s","h","o","r","t","n","e","s","s"," ","o","f"," ","b","r","e","a","t","h">> >>

\* mutant: the condition test moved before the medication test
detect_query_type_unordered(q) ==
    LET query_lower == lower(q)
    IN  IF any_keyword_in(condition_keywords, query_lower) THEN "condition"
        ELSE IF any_keyword_in(medication_keywords, query_lower) THEN "medication"
        ELSE IF any_keyword_in(symptom_keywords, query_lower) THEN "symptom"
        ELSE "general"

detect_query_type(q) ==
    LET query_lower == lower(q)
    IN  IF any_keyword_in(medication_keywords, query_lower) THEN "medication"
        ELSE IF any_keyword_in(condition_keywords, query_lower) THEN "condition"
        ELSE IF any_keyword_in(symptom_keywords, query_lower) THEN "symptom"
        ELSE "general"

----------------------------------------------------------------------------
(* extract_entity: first keyword of the list found in the lower-cased      *)
(* query; the last piece of split(keyword), stripped.  str.split raises    *)
(* ValueError("empty separator") for an empty keyword, which `in` always   *)
(* finds.                                                                  *)

Last(s) == s[Len(s)]

RECURSIVE extract_scan(_, _, _, _)
extract_scan(q, query_lower, kws, i) ==
    IF i > Len(kws)
    THEN Ret(q)
    ELSE IF contains(kws[i], query_lower)
         THEN IF kws[i] = << >>
              THEN Raise("ValueError")
              ELSE Ret(strip(Last(split(query_lower, kws[i]))))
         ELSE extract_scan(q, query_lower, kws, i + 1)

\* `drug_name or query` in generate_smart_response: Python `or` on strings
entity_or_query(e, q) == IF e = << >> THEN q ELSE e

\* mutant: split(keyword)[1], the piece after the first occurrence
RECURSIVE extract_scan_second_piece(_, _, _, _)
extract_scan_second_piece(q, query_lower, kws, i) ==
    IF i > Len(kws)
    THEN Ret(q)
    ELSE IF contains(kws[i], query_lower)
         THEN IF kws[i] = << >>
              THEN Raise("ValueError")
              ELSE Ret(strip(split(query_lower, kws[i])[2]))
         ELSE extract_scan_second_piece(q, query_lower, kws, i + 1)

extract_entity_second_piece(q, kws) == extract_scan_second_piece(q, lower(q), kws, 1)

\* mutant: the .strip() forgotten
RECURSIVE extract_scan_no_strip(_, _, _, _)
extract_scan_no_strip(q, query_lower, kws, i) ==
    IF i > Len(kws)
    THEN Ret(q)
    ELSE IF contains(kws[i], query_lower)
         THEN IF kws[i] = << >>
              THEN Raise("ValueError")
              ELSE Ret(Last(split(query_lower, kws[i])))
         ELSE extract_scan_no_strip(q, query_lower, kws, i + 1)

extract_entity_no_strip(q, kws) == extract_scan_no_strip(q, lower(q), kws, 1)

extract_entity(q, kws) == extract_scan(q, lower(q), kws, 1)

\* the keyword list every caller in the program passes
entity_keywords ==
    << <<"a","b","o","u","t">>,
       <<"i","n","f","o","r","m","a","t","i","o","n"," ","o","n">>,
       <<"t","e","l","l"," ","m","e"," ","a","b","o","u","t">> >>

----------------------------------------------------------------------------
(* The corpus: pandas DataFrames read from the four CSV files.  A cell is  *)
(* a string or NaN (an empty CSV cell); a row maps the columns of its      *)
(* table to cells; a dict is a sequence of key/value pairs in insertion    *)
(* order, which is the order data.items() iterates in.                     *)

Kinds == << "conditions", "drugs", "symptoms", "solutions" >>

Cell(s) == [nan |-> FALSE, text |-> s]

NaN == [nan |-> TRUE, text |-> << >>]

\* str(cell) inside an f-string
render(cell) == IF cell.nan THEN <<"n","a","n">> ELSE cell.text

\* row.get(col, default) of a Series or a dict
get(row, col, default) == IF col \in DOMAIN row THEN row[col] ELSE default

\* `key in data`
has_key(d, key) == \E i \in 1..Len(d) : d[i].key = key

\* data[key]
value_of(d, key) == d[CHOOSE i \in 1..Len(d) : d[i].key = key].df

Absent == [state |-> "absent", columns |-> {}, rows |-> << >>]

Malformed == [state |-> "malformed", columns |-> {}, rows |-> << >>]

CsvFile(cols, rows) == [state |-> "ok", columns |-> cols, rows |-> rows]

\* mutant: a missing file raises like an unreadable one
RECURSIVE load_scan_strict(_, _, _)
load_scan_strict(fs, i, d) ==
    IF i > Len(Kinds)
    THEN Ret(d)
    ELSE LET f == fs[Kinds[i]]
         IN  IF f.state = "ok"
             THEN load_scan_strict(fs, i + 1,
                      Append(d, [key |-> Kinds[i],
                                 df |-> [columns |-> f.columns, rows |-> f.rows]]))
             ELSE Raise("FileNotFoundError")

load_csv_data_strict(fs) ==
    LET r == load_scan_strict(fs, 1, << >>)
    IN  IF r.exc = "none" THEN r ELSE Ret(<< >>)

\* the body of the try block of load_csv_data: one file after the other;
\* pd.read_csv raises on a file that exists and cannot be parsed
RECURSIVE load_scan(_, _, _)
load_scan(fs, i, d) ==
    IF i > Len(Kinds)
    THEN Ret(d)
    ELSE LET f == fs[Kinds[i]]
         IN  IF f.state = "absent"
             THEN load_scan(fs, i + 1, d)
             ELSE IF f.state = "malformed"
                  THEN Raise("ParserError")
                  ELSE load_scan(fs, i + 1,
                           Append(d, [key |-> Kinds[i],
                                      df |-> [columns |-> f.columns, rows |-> f.rows]]))

\* load_csv_data: `except Exception: return {}`
load_csv_data(fs) ==
    LET r == load_scan(fs, 1, << >>)
    IN  IF r.exc = "none" THEN r ELSE Ret(<< >>)

----------------------------------------------------------------------------
(* row_to_text and build_semantic_index.                                   *)

name_column(kind) ==
    CASE kind = "conditions" -> "name"
      [] kind = "drugs" -> "drug_name"
      [] kind = "symptoms" -> "name"
      [] kind = "solutions" -> "problem"

label(kind) ==
    CASE kind = "conditions" -> <<"C","o","n","d","i","t","i","o","n",":"," ">>
      [] kind = "drugs" -> <<"D","r","u","g",":"," ">>
      [] kind = "symptoms" -> <<"S","y","m","p","t","o","m",":"," ">>
      [] kind = "solutions" -> <<"P","r","o","b","l","e","m",":"," ">>

\* row_to_text: the label and the name field of the f-string (the fields
\* after the first " | " are left out); a missing field renders as ''
row_to_text(row, kind) == label(kind) \o render(get(row, name_column(kind), Cell(<< >>)))

\* the rows of all DataFrames in data.items() order, each with its kind
RECURSIVE documents(_)
documents(d) ==
    IF d = << >>
    THEN << >>
    ELSE [j \in 1..Len(Head(d).df.rows) |->
             [type |-> Head(d).key, data |-> Head(d).df.rows[j]]]
         \o documents(Tail(d))

\* the index entry appended for one document
index_entry(doc, embedding) ==
    [type |-> doc.type, data |-> doc.data,
     text |-> row_to_text(doc.data, doc.type), embedding |-> embedding]

\* mutant: try/except around each document, the failing one skipped
build_semantic_index_per_document(d, answers) ==
    LET docs == documents(d)
        ok == {j \in 1..Len(docs) : answers[j] # "error"}
        nth(n) == CHOOSE j \in ok : Cardinality({i \in ok : i < j}) = n - 1
    IN  [index |-> [n \in 1..Cardinality(ok) |->
                        index_entry(docs[nth(n)], answers[nth(n)])],
         log |-> [j \in 1..Len(docs) |-> answers[j]]]

\* build_semantic_index: answers[j] is what genai.embed_content answers for
\* document j ("error" when the call raises).  The try block surrounds both
\* loops, so the first failing call ends the build with `return []`.
\* log: the answers of the calls that were made.
build_semantic_index(d, answers) ==
    LET docs == documents(d)
        failed == {j \in 1..Len(docs) : answers[j] = "error"}
    IN  IF failed = {}
        THEN [index |-> [j \in 1..Len(docs) |-> index_entry(docs[j], answers[j])],
              log |-> [j \in 1..Len(docs) |-> answers[j]]]
        ELSE LET first == CHOOSE j \in failed : \A i \in failed : j <= i
             IN  [index |-> << >>,
                  log |-> [j \in 1..first |-> answers[j]]]

----------------------------------------------------------------------------
(* semantic_search.  Embeddings are integer vectors; the cosine scores are *)
(* compared exactly: with k(a) = dot(q,a)*|dot(q,a)|, score(q,a) >         *)
(* score(q,b) iff k(a)*|b|^2 > k(b)*|a|^2.                                 *)

RECURSIVE dot(_, _)
dot(a, b) == IF a = << >> THEN 0 ELSE Head(a) * Head(b) + dot(Tail(a), Tail(b))

Abs(x) == IF x < 0 THEN -x ELSE x

score_key(q, a) == dot(q, a) * Abs(dot(q, a))

\* score(q, a) >= score(q, b)
score_ge(q, a, b) == score_key(q, a) * dot(b, b) >= score_key(q, b) * dot(a, a)

\* score(q, a) > score(q, b)
score_gt(q, a, b) == score_key(q, a) * dot(b, b) > score_key(q, b) * dot(a, a)

\* the result of a chatbot operation with the provider calls it made
Out(exc, val, embed_calls, gen_calls) ==
    [exc |-> exc, val |-> val, embed_calls |-> embed_calls, gen_calls |-> gen_calls]

\* mutant: an unstable descending sort (ascending sort, then reversed)
RECURSIVE sort_desc_unstable(_, _)
sort_desc_unstable(q, items) ==
    IF items = << >>
    THEN << >>
    ELSE LET sorted == sort_desc_unstable(q, SubSeq(items, 1, Len(items) - 1))
             x == items[Len(items)]
             before == Cardinality({i \in 1..Len(sorted) :
                           score_gt(q, sorted[i].embedding, x.embedding)})
         IN  SubSeq(sorted, 1, before) \o << x >>
             \o SubSeq(sorted, before + 1, Len(sorted))

\* scored.sort(key=score, reverse=True): stable, equal scores keep their
\* order; each item goes behind the items sorted so far that score as high
RECURSIVE sort_desc(_, _)
sort_desc(q, items) ==
    IF items = << >>
    THEN << >>
    ELSE LET sorted == sort_desc(q, SubSeq(items, 1, Len(items) - 1))
             x == items[Len(items)]
             before == Cardinality({i \in 1..Len(sorted) :
                           score_ge(q, sorted[i].embedding, x.embedding)})
         IN  SubSeq(sorted, 1, before) \o << x >>
             \o SubSeq(sorted, before + 1, Len(sorted))

\* scored[:top_k] for top_k >= 0
take(s, k) == SubSeq(s, 1, IF k < Len(s) THEN k ELSE Len(s))

\* mutant: neither the empty-index guard nor the try/except
semantic_search_unguarded(idx, q_answer, top_k) ==
    IF q_answer = "error"
    THEN Out("ProviderError", << >>, 1, 0)
    ELSE IF \E i \in 1..Len(idx) : Len(idx[i].embedding) # Len(q_answer)
         THEN Out("ValueError", << >>, 1, 0)
         ELSE Out("none", take(sort_desc(q_answer, idx), top_k), 1, 0)

\* semantic_search: q_answer is what genai.embed_content answers for the
\* query ("error" when the call raises); np.dot raises ValueError on vectors
\* of different lengths; every exception is caught and gives []
semantic_search(idx, q_answer, top_k) ==
    IF idx = << >>
    THEN Out("none", << >>, 0, 0)
    ELSE IF q_answer = "error"
         THEN Out("none", << >>, 1, 0)
         ELSE IF \E i \in 1..Len(idx) : Len(idx[i].embedding) # Len(q_answer)
              THEN Out("none", << >>, 1, 0)
              ELSE Out("none", take(sort_desc(q_answer, idx), top_k), 1, 0)

----------------------------------------------------------------------------
(* Responses.  A response string is modelled by what decides its content:  *)
(* where it comes from, which template, and the heading it shows.          *)

upper_char(c) ==
    IF \E i \in 1..Len(LowerChars) : LowerChars[i] = c
    THEN UpperChars[CHOOSE i \in 1..Len(LowerChars) : LowerChars[i] = c]
    ELSE c

\* str.upper()
upper(s) == [i \in 1..Len(s) |-> upper_char(s[i])]

Response(src, kind, title) == [src |-> src, kind |-> kind, title |-> title]

format_condition_response(row) ==
    Out("none",
        Response("database", "condition",
                 render(get(row, "name", Cell(<<"C","o","n","d","i","t","i","o","n">>)))),
        0, 0)

\* row.get('drug_name', 'Medication').upper(): a NaN cell is a float and has
\* no upper()
format_drug_response(row) ==
    LET cell == get(row, "drug_name", Cell(<<"M","e","d","i","c","a","t","i","o","n">>))
    IN  IF cell.nan
        THEN Out("AttributeError", << >>, 0, 0)
        ELSE Out("none", Response("database", "drug", upper(cell.text)), 0, 0)

format_symptom_response(row) ==
    Out("none",
        Response("database", "symptom",
                 render(get(row, "name", Cell(<<"S","y","m","p","t","o","m">>)))),
        0, 0)

\* mutant: a fallback that calls the provider a second time when the first
\* call raises
generate_info_retrying(kind, name, gen_answer) ==
    Out("none",
        Response(CASE gen_answer = "text" -> "gemini"
                   [] gen_answer = "empty" -> "could_not_find"
                   [] gen_answer = "error" -> "error_message",
                 kind, name),
        0, IF gen_answer = "error" THEN 2 ELSE 1)

\* generate_condition_info / generate_drug_info / generate_symptom_info and
\* the general fallback: one GEN_MODEL.generate_content call inside a try;
\* gen_answer is "text", "empty" (no response text) or "error" (the call
\* raises)
generate_info(kind, name, gen_answer) ==
    Out("none",
        Response(CASE gen_answer = "text" -> "gemini"
                   [] gen_answer = "empty" -> "could_not_find"
                   [] gen_answer = "error" -> "error_message",
                 kind, name),
        0, 1)

generate_condition_info(name, gen_answer) == generate_info("condition", name, gen_answer)

generate_drug_info(name, gen_answer) == generate_info("drug", name, gen_answer)

generate_symptom_info(name, gen_answer) == generate_info("symptom", name, gen_answer)

----------------------------------------------------------------------------
(* Lookups by name.                                                        *)

\* df[col].str raises AttributeError on a column that is not of strings:
\* a column whose cells are all NaN is read as float64
str_accessor_ok(df, col) ==
    df.rows = << >> \/ \E i \in 1..Len(df.rows) : ~df.rows[i][col].nan

\* re.compile(pattern) inside str.contains (regex=True by default).  The
\* only regex metacharacter in the texts of the model is "(", and no text
\* holds ")": a pattern with "(" is an unterminated group and raises re.error
regex_compiles(pattern) == \A i \in 1..Len(pattern) : pattern[i] # "("

\* df[col].str.lower().str.contains(pattern, na=False) for a pattern that
\* compiles: the rows whose cell holds the pattern (a pattern of literal
\* characters matches where it is a substring)
str_contains(df, col, pattern) ==
    {i \in 1..Len(df.rows) :
        /\ ~df.rows[i][col].nan
        /\ contains(pattern, lower(df.rows[i][col].text))}

\* match.iloc[0]
first_row(df, match) == df.rows[CHOOSE i \in match : \A j \in match : i <= j]

get_condition_info(d, condition_name, gen_answer) ==
    IF has_key(d, "conditions")
    THEN LET df == value_of(d, "conditions")
         IN  IF "name" \notin df.columns
             THEN Out("KeyError", << >>, 0, 0)
             ELSE IF ~str_accessor_ok(df, "name")
             THEN Out("AttributeError", << >>, 0, 0)
             ELSE IF ~regex_compiles(lower(condition_name))
                  THEN Out("re.error", << >>, 0, 0)
                  ELSE LET match == str_contains(df, "name", lower(condition_name))
                       IN  IF match # {}
                           THEN format_condition_response(first_row(df, match))
                           ELSE generate_condition_info(condition_name, gen_answer)
    ELSE generate_condition_info(condition_name, gen_answer)

get_drug_info(d, drug_name, gen_answer) ==
    IF has_key(d, "drugs")
    THEN LET df == value_of(d, "drugs")
         IN  IF "drug_name" \notin df.columns
             THEN Out("KeyError", << >>, 0, 0)
             ELSE IF ~str_accessor_ok(df, "drug_name")
             THEN Out("AttributeError", << >>, 0, 0)
             ELSE IF ~regex_compiles(lower(drug_name))
             THEN Out("re.error", << >>, 0, 0)
             ELSE IF "brand_names" \notin df.columns
             THEN Out("KeyError", << >>, 0, 0)
             ELSE IF ~str_accessor_ok(df, "brand_names")
                  THEN Out("AttributeError", << >>, 0, 0)
                  ELSE LET match == str_contains(df, "drug_name", lower(drug_name))
                                    \cup str_contains(df, "brand_names", lower(drug_name))
                       IN  IF match # {}
                           THEN format_drug_response(first_row(df, match))
                           ELSE generate_drug_info(drug_name, gen_answer)
    ELSE generate_drug_info(drug_name, gen_answer)

get_symptom_info(d, symptom_name, gen_answer) ==
    IF has_key(d, "symptoms")
    THEN LET df == value_of(d, "symptoms")
         IN  IF "name" \notin df.columns
             THEN Out("KeyError", << >>, 0, 0)
             ELSE IF ~str_accessor_ok(df, "name")
             THEN Out("AttributeError", << >>, 0, 0)
             ELSE IF ~regex_compiles(lower(symptom_name))
                  THEN Out("re.error", << >>, 0, 0)
                  ELSE LET match == str_contains(df, "name", lower(symptom_name))
                       IN  IF match # {}
                           THEN format_symptom_response(first_row(df, match))
                           ELSE generate_symptom_info(symptom_name, gen_answer)
    ELSE generate_symptom_info(symptom_name, gen_answer)

----------------------------------------------------------------------------
(* generate_smart_response.                                                *)

SmartTopK == 3

\* adds the embedding call of the search to the calls of what followed it
after_search(search, out) ==
    Out(out.exc, out.val, search.embed_calls + out.embed_calls, out.gen_calls)

generate_smart_response(d, idx, q, q_answer, gen_answer) ==
    LET query_type == detect_query_type(q)
        name == entity_or_query(extract_entity(q, entity_keywords).val, q)
    IN  IF query_type = "medication" THEN get_drug_info(d, name, gen_answer)
        ELSE IF query_type = "condition" THEN get_condition_info(d, name, gen_answer)
        ELSE IF query_type = "symptom" THEN get_symptom_info(d, name, gen_answer)
        ELSE LET search == semantic_search(idx, q_answer, SmartTopK)
                 results == search.val
                 fallback == generate_info("general", q, gen_answer)
             IN  after_search(search,
                     IF results # << >>
                     THEN LET best_match == results[1]
                          IN  IF best_match.type = "conditions"
                              THEN format_condition_response(best_match.data)
                              ELSE IF best_match.type = "drugs"
                                   THEN format_drug_response(best_match.data)
                                   ELSE IF best_match.type = "symptoms"
                                        THEN format_symptom_response(best_match.data)
                                        ELSE fallback
                     ELSE fallback)

-----------------------------------------------------------------------------
(* The Streamlit session of app.py: the conversation and the handlers of   *)
(* its buttons.                                                            *)

\* what the user did last: the button, the text in the question box when it
\* was pressed, and the exception that ended the script run ("none" if the
\* run completed)
Event(button, input, raised) == [button |-> button, input |-> input, raised |-> raised]

\* nothing has happened in the session
NoEvent == Event("none", << >>, "none")

\* {"role": role, "content": content}
Message(role, content) == [role |-> role, content |-> content]

\* MedicalChatbot(): load_csv_data, then build_semantic_index over the
\* provider's answers
MedicalChatbot(fs, answers) ==
    LET loaded == load_csv_data(fs)
        built == build_semantic_index(loaded.val, answers)
    IN  [exc |-> loaded.exc, data |-> loaded.val, index |-> built.index, log |-> built.log]

\* get_available_topics is called by app.py and is not defined by
\* pipeline.py; modelled from the specification's session boundary: it
\* returns a list and changes nothing
get_available_topics(d) == Out("none", [i \in 1..Len(d) |-> d[i].key], 0, 0)

\* get_medication_info is called by app.py and is not defined by
\* pipeline.py; modelled from the specification: lookup(entityKind, name)
\* answers with a text and no failure propagates
get_medication_info(d, med_name) == Out("none", Response("lookup", "drug", med_name), 0, 0)

\* generate_response is called by app.py and is not defined by pipeline.py;
\* modelled from the specification: rank-and-respond(query) answers with a
\* text and no failure propagates
generate_response(d, idx, q) == Out("none", Response("rank_and_respond", "general", q), 0, 0)

med_keywords ==
    << <<"a","b","o","u","t">>,
       <<"i","n","f","o","r","m","a","t","i","o","n"," ","o","n">>,
       <<"t","e","l","l"," ","m","e"," ","a","b","o","u","t">> >>

cond_keywords ==
    << <<"a","b","o","u","t">>,
       <<"i","n","f","o","r","m","a","t","i","o","n"," ","o","n">>,
       <<"t","e","l","l"," ","m","e"," ","a","b","o","u","t">> >>

\* the loop over the keywords in the Smart Answer handler: the text after
\* the first keyword present, or the input itself
name_after(user_input_text, kws) == extract_entity(user_input_text, kws)

\* the chatbot call of the Smart Answer handler
smart_answer(d, idx, user_input_text, gen_answer) ==
    LET query_type == detect_query_type(user_input_text)
    IN  IF query_type = "medication"
        THEN get_medication_info(d, name_after(user_input_text, med_keywords).val)
        ELSE IF query_type = "condition"
             THEN get_condition_info(d, name_after(user_input_text, cond_keywords).val,
                                     gen_answer)
             ELSE generate_response(d, idx, user_input_text)

\* f"Medication: {user_input}"
medication_turn(user_input_text) ==
    <<"M","e","d","i","c","a","t","i","o","n",":"," ">> \o user_input_text

\* f"Condition: {user_input}"
condition_turn(user_input_text) ==
    <<"C","o","n","d","i","t","i","o","n",":"," ">> \o user_input_text

\* f"Tell me about {med} medication"
medication_question(med) ==
    <<"T","e","l","l"," ","m","e"," ","a","b","o","u","t"," ">> \o med
        \o <<" ","m","e","d","i","c","a","t","i","o","n">>

\* f"Information about {condition}"
condition_question(condition) ==
    <<"I","n","f","o","r","m","a","t","i","o","n"," ","a","b","o","u","t"," ">> \o condition

----------------------------------------------------------------------------
(* Text specification: the inputs of the two text functions are drawn from *)
(* bounded sets, the actions apply the functions.                          *)

MaxFrags == 2

Fragments ==
    << <<"t","e","l","l"," ","m","e"," ","a","b","o","u","t"," ">>,
       <<"a","b","o","u","t"," ","p","a","i","n">>,
       <<"I","b","u","p","r","o","f","e","n">>,
       <<" ","d","o","s","a","g","e">>,
       <<"w","h","a","t"," ","i","s"," ">>,
       <<"d","i","a","b","e","t","e","s">>,
       <<"A","m","o","x","i","c","i","l","l","i","n">>,
       <<" ","i","n","f","o">>,
       <<"h","a","h","a","h","a">>,
       <<" ">> >>

RECURSIVE concat(_)
concat(fs) == IF fs = << >> THEN << >> ELSE Fragments[Head(fs)] \o concat(Tail(fs))

Queries ==
    { concat(fs) : fs \in UNION { [1..n -> 1..Len(Fragments)] : n \in 0..MaxFrags } }

KeywordLists ==
    { entity_keywords,
      << entity_keywords[1] >>,
      << entity_keywords[2] >>,
      << entity_keywords[3], entity_keywords[1] >>,
      << <<"i","n","f","o">>, entity_keywords[1] >>,
      << <<"h","a","h","a">> >>,
      << << >>, entity_keywords[1] >>,
      << >> }

\* no file exists
NoFiles == [k \in {Kinds[i] : i \in 1..Len(Kinds)} |-> Absent]

\* no operation has been invoked on the chatbot
NoCall ==
    [op |-> "none", arg |-> << >>, top_k |-> 0, q_answer |-> "unused",
     gen_answer |-> "unused", out |-> Out("none", << >>, 0, 0)]

TextInit ==
    /\ query \in Queries
    /\ keywords \in KeywordLists
    /\ qtype = "unset"
    /\ entity = Unset
    /\ files = NoFiles
    /\ phase = "new"
    /\ data = << >>
    /\ index = << >>
    /\ embed_log = << >>
    /\ last = NoCall
    /\ messages = << >>
    /\ user_input = << >>
    /\ event = NoEvent

Classify ==
    /\ qtype = "unset"
    /\ qtype' = detect_query_type(query)
    /\ UNCHANGED << query, keywords, entity >>
    /\ UNCHANGED bot_vars
    /\ UNCHANGED session_vars

Extract ==
    /\ entity = Unset
    /\ entity' = extract_entity(query, keywords)
    /\ UNCHANGED << query, keywords, qtype >>
    /\ UNCHANGED bot_vars
    /\ UNCHANGED session_vars

TextNext == Classify \/ Extract

SpecText == TextInit /\ [][TextNext]_vars

----------------------------------------------------------------------------
(* Chatbot specification: a data directory, MedicalChatbot.__init__ in its *)
(* two steps, then the operations the shell can invoke, with every answer  *)
(* of the two providers.                                                   *)

MaxK == 3

DefaultTopK == 5

TopKs == (1..MaxK) \cup {DefaultTopK}

CondTable ==
    CsvFile({"name"}, << [name |-> Cell(<<"C","a","r","d","i","a","c"," ","A","s","t","h","m","a">>)],
                         [name |-> Cell(<<"A","s","t","h","m","a">>)] >>)

CondTableNoName ==
    CsvFile({"description"}, << [description |-> Cell(<<"A","s","t","h","m","a">>)] >>)

DrugTable ==
    CsvFile({"drug_name", "brand_names"},
            << [drug_name |-> Cell(<<"A","s","p","i","r","i","n">>), brand_names |-> Cell(<<"B","a","y","e","r">>)],
               [drug_name |-> NaN, brand_names |-> Cell(<<"B","a","y","e","r"," ","P","l","u","s">>)] >>)

DrugTableNoBrand ==
    CsvFile({"drug_name"}, << [drug_name |-> Cell(<<"A","s","p","i","r","i","n">>)] >>)

SymptomTable == CsvFile({"name"}, << [name |-> Cell(<<"H","e","a","d","a","c","h","e">>)] >>)

SolutionTable == CsvFile({"problem"}, << [problem |-> Cell(<<"B","u","r","n">>)] >>)

Directories ==
    { [conditions |-> c, drugs |-> d, symptoms |-> s, solutions |-> o] :
        c \in {Absent, Malformed, CondTable, CondTableNoName},
        d \in {Absent, DrugTable, DrugTableNoBrand},
        s \in {Absent, SymptomTable},
        o \in {Absent, Malformed, SolutionTable} }

\* what genai.embed_content answers for the text of a document when the
\* call succeeds: a fixed vector per text
provider_vector(text) ==
    CASE text = label("conditions") \o <<"C","a","r","d","i","a","c"," ","A","s","t","h","m","a">> -> << 1, 0 >>
      [] text = label("conditions") \o <<"A","s","t","h","m","a">> -> << 0, 1 >>
      [] text = label("drugs") \o <<"A","s","p","i","r","i","n">> -> << 1, 1 >>
      [] text = label("drugs") \o <<"n","a","n">> -> << 2, 2 >>
      [] text = label("symptoms") \o <<"H","e","a","d","a","c","h","e">> -> << 1, 0 >>
      [] text = label("solutions") \o <<"B","u","r","n">> -> << 3, 4 >>
      [] OTHER -> << 0, 2 >>

\* what genai.embed_content can answer for a query: an error, a vector, or
\* a vector of another length than the indexed ones
QueryAnswers ==
    { "error", << 1, 0 >>, << 0, 1 >>, << 1, 1 >>, << -1, 1 >>, << -1, -1 >>,
      << 1, 3 >>, << 3, 4 >>, << 1 >> }

GenAnswers == {"text", "empty", "error"}

BotQueries ==
    { <<"t","e","l","l"," ","m","e"," ","a","b","o","u","t"," ","A","s","p","i","r","i","n">>,
      <<"a","s","t","h","m","a">>,
      <<"H","e","a","d","a","c","h","e">>,
      <<"h","e","l","l","o">>,
      <<"p","i","l","l"," ","a","b","o","u","t">>,
      <<"p","l","u","s">>,
      <<"a","s","t","h","m","a"," ","(">>,
      <<"b","a","y","e","r">> }

BotInit ==
    /\ files \in Directories
    /\ phase = "new"
    /\ data = << >>
    /\ index = << >>
    /\ embed_log = << >>
    /\ last = NoCall
    /\ query = << >>
    /\ keywords = << >>
    /\ qtype = "unset"
    /\ entity = Unset
    /\ messages = << >>
    /\ user_input = << >>
    /\ event = NoEvent

\* self.data = self.load_csv_data()
LoadCsvData ==
    /\ phase = "new"
    /\ LET r == load_csv_data(files)
       IN  IF r.exc = "none"
           THEN data' = r.val /\ phase' = "loaded"
           ELSE data' = data /\ phase' = "crashed"
    /\ UNCHANGED << files, index, embed_log, last >>
    /\ UNCHANGED text_vars
    /\ UNCHANGED session_vars

\* self.index = self.build_semantic_index(); the provider fails on no
\* document or on one of them
BuildSemanticIndex ==
    /\ phase = "loaded"
    /\ \E failing \in 0..Len(documents(data)) :
          LET docs == documents(data)
              answers == [j \in 1..Len(docs) |->
                             IF j = failing
                             THEN "error"
                             ELSE provider_vector(row_to_text(docs[j].data, docs[j].type))]
              built == build_semantic_index(data, answers)
          IN  /\ index' = built.index
              /\ embed_log' = built.log
    /\ phase' = "ready"
    /\ UNCHANGED << files, data, last >>
    /\ UNCHANGED text_vars
    /\ UNCHANGED session_vars

Call(op, arg, top_k, q_answer, gen_answer, out) ==
    [op |-> op, arg |-> arg, top_k |-> top_k,
     q_answer |-> IF out.embed_calls > 0 THEN q_answer ELSE "unused",
     gen_answer |-> IF out.gen_calls > 0 THEN gen_answer ELSE "unused",
     out |-> out]

\* the shell invokes an operation on the constructed chatbot
Invoke(call) ==
    /\ phase = "ready"
    /\ last' = call
    /\ phase' = "returned"
    /\ UNCHANGED << files, data, index, embed_log >>
    /\ UNCHANGED text_vars
    /\ UNCHANGED session_vars

\* the shell has consumed the outcome and is ready for the next operation
Return ==
    /\ phase = "returned"
    /\ phase' = "ready"
    /\ last' = NoCall
    /\ UNCHANGED << files, data, index, embed_log >>
    /\ UNCHANGED text_vars
    /\ UNCHANGED session_vars

DetectQueryType ==
    \E q \in BotQueries :
        Invoke(Call("detect_query_type", q, 0, "unused", "unused",
                    Out("none", detect_query_type(q), 0, 0)))

GetConditionInfo ==
    \E q \in BotQueries, g \in GenAnswers :
        Invoke(Call("get_condition_info", q, 0, "unused", g,
                    get_condition_info(data, q, g)))

GetDrugInfo ==
    \E q \in BotQueries, g \in GenAnswers :
        Invoke(Call("get_drug_info", q, 0, "unused", g, get_drug_info(data, q, g)))

GetSymptomInfo ==
    \E q \in BotQueries, g \in GenAnswers :
        Invoke(Call("get_symptom_info", q, 0, "unused", g,
                    get_symptom_info(data, q, g)))

SemanticSearch ==
    \E q \in BotQueries, a \in QueryAnswers, k \in TopKs :
        Invoke(Call("semantic_search", q, k, a, "unused", semantic_search(index, a, k)))

GenerateSmartResponse ==
    \E q \in BotQueries, a \in QueryAnswers, g \in GenAnswers :
        Invoke(Call("generate_smart_response", q, 0, a, g,
                    generate_smart_response(data, index, q, a, g)))

BotNext ==
    \/ LoadCsvData
    \/ BuildSemanticIndex
    \/ DetectQueryType
    \/ GetConditionInfo
    \/ GetDrugInfo
    \/ GetSymptomInfo
    \/ SemanticSearch
    \/ GenerateSmartResponse
    \/ Return

SpecBot == BotInit /\ [][BotNext]_vars

-----------------------------------------------------------------------------
(* Specification of one session of app.py.                                 *)

\* the conversation is followed up to this many messages
MaxMessages == 4

\* the data directories of the sessions: the four tables, and the same
\* without the name column of conditions.csv
SessionDirectories ==
    { [conditions |-> c, drugs |-> DrugTable, symptoms |-> SymptomTable,
       solutions |-> SolutionTable] : c \in {CondTable, CondTableNoName} }

\* the quick-access buttons pressed in the sessions
QuickMeds == { <<"A","s","p","i","r","i","n">> }

QuickConditions == { <<"A","s","t","h","m","a">> }

\* what the user types into the question box
TypedInputs ==
    { << >>,
      <<" ">>,
      <<"h","e","l","l","o">>,
      <<"a","s","t","h","m","a"," ","(">> }

SessionGenAnswers == {"text", "error"}

TurnButtons == {"smart", "medication", "condition"}

SessionInit ==
    /\ files \in SessionDirectories
    /\ phase = "new"
    /\ data = << >>
    /\ index = << >>
    /\ embed_log = << >>
    /\ last = NoCall
    /\ query = << >>
    /\ keywords = << >>
    /\ qtype = "unset"
    /\ entity = Unset
    /\ messages = << >>
    /\ user_input = << >>
    /\ event = NoEvent

\* mutant: the chatbot is constructed again by later script runs
chatbot_absent_every_run == phase \in {"new", "ready"}

\* 'chatbot' not in st.session_state
chatbot_absent == phase = "new"

\* if 'chatbot' not in st.session_state: chatbot = MedicalChatbot();
\* messages = [].  The provider fails on no document, on the first or on the third
StartSession ==
    /\ chatbot_absent
    /\ \E failing \in {0, 1, 3} :
          LET docs == documents(load_csv_data(files).val)
              answers == [j \in 1..Len(docs) |->
                             IF j = failing
                             THEN "error"
                             ELSE provider_vector(row_to_text(docs[j].data, docs[j].type))]
              chatbot == MedicalChatbot(files, answers)
          IN  IF chatbot.exc = "none"
              THEN /\ data' = chatbot.data
                   /\ index' = chatbot.index
                   /\ embed_log' = chatbot.log
                   /\ messages' = << >>
                   /\ phase' = "ready"
                   /\ event' = Event("start", << >>, "none")
              ELSE /\ phase' = "crashed"
                   /\ event' = Event("start", << >>, chatbot.exc)
                   /\ UNCHANGED << data, index, embed_log, messages >>
    /\ UNCHANGED << files, last, user_input >>
    /\ UNCHANGED text_vars

\* a script run reaches the buttons below the sidebar's statistics
SessionReady ==
    /\ phase = "ready"
    /\ get_available_topics(data).exc = "none"

\* the user edits the question box
TypeInput ==
    /\ SessionReady
    /\ \E text \in TypedInputs :
          /\ user_input' = text
          /\ event' = Event("type", text, "none")
    /\ UNCHANGED messages
    /\ UNCHANGED bot_vars
    /\ UNCHANGED text_vars

\* a button of Common Medications
QuickMedication ==
    /\ phase = "ready"
    /\ \E med \in QuickMeds :
          /\ user_input' = medication_question(med)
          /\ event' = Event("quick_medication", med, "none")
    /\ UNCHANGED messages
    /\ UNCHANGED bot_vars
    /\ UNCHANGED text_vars

\* a button of Common Conditions
QuickCondition ==
    /\ phase = "ready"
    /\ \E condition \in QuickConditions :
          /\ user_input' = condition_question(condition)
          /\ event' = Event("quick_condition", condition, "none")
    /\ UNCHANGED messages
    /\ UNCHANGED bot_vars
    /\ UNCHANGED text_vars

\* Clear Chat History
ClearChatHistory ==
    /\ SessionReady
    /\ messages' = << >>
    /\ event' = Event("clear", user_input, "none")
    /\ UNCHANGED user_input
    /\ UNCHANGED bot_vars
    /\ UNCHANGED text_vars

\* a non-blank question fits the conversation the model follows
RoomForTurn == strip(user_input) # << >> => Len(messages) + 2 <= MaxMessages

\* Smart Answer: the user turn is appended before the chatbot is called
SmartAnswer ==
    /\ SessionReady
    /\ RoomForTurn
    /\ \E g \in SessionGenAnswers :
          LET response == smart_answer(data, index, user_input, g)
              asked == Append(messages, Message("user", user_input))
          IN  IF strip(user_input) = << >>
              THEN /\ event' = Event("smart", user_input, "none")
                   /\ UNCHANGED << messages, user_input >>
              ELSE IF response.exc # "none"
                   THEN /\ messages' = asked
                        /\ event' = Event("smart", user_input, response.exc)
                        /\ UNCHANGED user_input
                   ELSE /\ messages' = Append(asked, Message("assistant", response.val))
                        /\ user_input' = << >>
                        /\ event' = Event("smart", user_input, "none")
    /\ UNCHANGED bot_vars
    /\ UNCHANGED text_vars

\* Medication Info: the chatbot is called before anything is appended
MedicationInfo ==
    /\ SessionReady
    /\ RoomForTurn
    /\ LET response == get_medication_info(data, user_input)
       IN  IF strip(user_input) = << >>
           THEN /\ event' = Event("medication", user_input, "none")
                /\ UNCHANGED << messages, user_input >>
           ELSE IF response.exc # "none"
                THEN /\ event' = Event("medication", user_input, response.exc)
                     /\ UNCHANGED << messages, user_input >>
                ELSE /\ messages' = messages \o
                             << Message("user", medication_turn(user_input)),
                                Message("assistant", response.val) >>
                     /\ user_input' = << >>
                     /\ event' = Event("medication", user_input, "none")
    /\ UNCHANGED bot_vars
    /\ UNCHANGED text_vars

\* Condition Info: the chatbot is called before anything is appended
ConditionInfo ==
    /\ SessionReady
    /\ RoomForTurn
    /\ \E g \in SessionGenAnswers :
          LET response == get_condition_info(data, user_input, g)
          IN  IF strip(user_input) = << >>
              THEN /\ event' = Event("condition", user_input, "none")
                   /\ UNCHANGED << messages, user_input >>
              ELSE IF response.exc # "none"
                   THEN /\ event' = Event("condition", user_input, response.exc)
                        /\ UNCHANGED << messages, user_input >>
                   ELSE /\ messages' = messages \o
                                << Message("user", condition_turn(user_input)),
                                   Message("assistant", response.val) >>
                        /\ user_input' = << >>
                        /\ event' = Event("condition", user_input, "none")
    /\ UNCHANGED bot_vars
    /\ UNCHANGED text_vars

SessionNext ==
    \/ StartSession
    \/ TypeInput
    \/ QuickMedication
    \/ QuickCondition
    \/ ClearChatHistory
    \/ SmartAnswer
    \/ MedicationInfo
    \/ ConditionInfo

SpecSession == SessionInit /\ [][SessionNext]_vars

----------------------------------------------------------------------------
(* Helpers of the text claims, stated without split().                     *)

QueryTypes == {"medication", "condition", "symptom", "emergency", "general"}

Txt_ibuprofen_dosage == Fragments[3] \o Fragments[4]
Txt_what_is_diabetes == Fragments[5] \o Fragments[6]
Txt_tell_me_about_amoxicillin == Fragments[1] \o Fragments[7]
Txt_amoxicillin_info == Fragments[7] \o Fragments[8]

\* positions of the keywords of kws found in text
Hits(kws, text) == {i \in 1..Len(kws) : contains(kws[i], text)}

MinOf(S) == CHOOSE x \in S : \A y \in S : x <= y
MaxOf(S) == CHOOSE x \in S : \A y \in S : x >= y

\* all start positions of k in text
Occurrences(k, text) == {p \in 1..(Len(text) - Len(k) + 1) : occurs_at(k, text, p)}

\* the occurrences a left-to-right scan keeps: those not overlapping an
\* occurrence kept before them
ScanOccurrences(k, text) ==
    LET kept[p \in 1..Len(text)] ==
            /\ occurs_at(k, text, p)
            /\ \A j \in 1..(p - 1) : kept[j] => j + Len(k) <= p
    IN  {p \in 1..Len(text) : kept[p]}

\* the text after the occurrence of k at position p
After(k, text, p) == SubSeq(text, p + Len(k), Len(text))

\* no keyword of the list is the empty string
NonEmptyKeywords(kws) == \A i \in 1..Len(kws) : kws[i] # << >>

\* C2 (original wording): the result is everything after the LAST occurrence
\* of the first keyword found, trimmed; the query itself when none is found.
\* Read for lists of non-empty keywords.
C2_Original_AfterLastOccurrence ==
    (entity # Unset /\ NonEmptyKeywords(keywords)) =>
        LET ql == lower(query)
            hits == Hits(keywords, ql)
        IN  IF hits = {}
            THEN entity = Ret(query)
            ELSE LET k == keywords[MinOf(hits)]
                 IN  entity = Ret(strip(After(k, ql, MaxOf(Occurrences(k, ql)))))

\* C3 (original wording): for a non-empty query the result is never an
\* exception and never the empty string.  Read for lists of non-empty
\* keywords.
C3_Original_NeverEmptyNeverThrows ==
    (entity # Unset /\ query # << >> /\ NonEmptyKeywords(keywords)) =>
        (entity.exc = "none" /\ entity.val # << >>)

\* C1: detect_query_type returns one of the five categories, chosen by the
\* fixed priority medication > condition > symptom > general over substring
\* tests on the lower-cased query; a query with keywords of two categories
\* gets the higher one; "ibuprofen dosage" is medication and
\* "what is diabetes" is condition.
C1_ClassifyByPriority ==
    (qtype # "unset") =>
        LET ql == lower(query)
            med == any_keyword_in(medication_keywords, ql)
            cond == any_keyword_in(condition_keywords, ql)
            sym == any_keyword_in(symptom_keywords, ql)
        IN  /\ qtype \in QueryTypes
            /\ med => qtype = "medication"
            /\ (~med /\ cond) => qtype = "condition"
            /\ (~med /\ ~cond /\ sym) => qtype = "symptom"
            /\ (~med /\ ~cond /\ ~sym) => qtype = "general"
            /\ lower(query) = lower(Txt_ibuprofen_dosage) => qtype = "medication"
            /\ query = Txt_what_is_diabetes => qtype = "condition"

\* C1 witness: "what is Ibuprofen" holds a condition keyword and (in upper
\* case) a medication keyword, and is classified medication.
C1_Witness ==
    /\ qtype = "medication"
    /\ any_keyword_in(condition_keywords, lower(query))
    /\ ~any_keyword_in(medication_keywords, query)

\* C2 (amended): keywords are scanned in list order; for the first one found
\* in the lower-cased query the result is the lower-cased text after the last
\* occurrence a left-to-right non-overlapping scan finds (str.split), trimmed,
\* which is the keyword's last occurrence whenever no two of its occurrences
\* overlap; an empty keyword raises ValueError; with no keyword found the
\* original query is returned unchanged.
C2_ExtractAfterLastSplitOccurrence ==
    (entity # Unset) =>
        LET ql == lower(query)
            hits == Hits(keywords, ql)
        IN  IF hits = {}
            THEN entity = Ret(query)
            ELSE LET k == keywords[MinOf(hits)]
                     occ == Occurrences(k, ql)
                     scan == ScanOccurrences(k, ql)
                 IN  IF k = << >>
                     THEN entity = Raise("ValueError")
                     ELSE /\ entity = Ret(strip(After(k, ql, MaxOf(scan))))
                          /\ (scan = occ) =>
                                entity = Ret(strip(After(k, ql, MaxOf(occ))))
                          /\ (query = Txt_tell_me_about_amoxicillin
                                /\ keywords = << entity_keywords[1] >>) =>
                                entity = Ret(lower(Fragments[7]))

\* C2 witness: the program's keyword list, whose first keyword occurs twice
\* in the query with text after the last occurrence
\* ("tell me about about pain" gives "pain").
C2_Witness ==
    /\ entity.exc = "none"
    /\ keywords = entity_keywords
    /\ Cardinality(ScanOccurrences(keywords[1], lower(query))) = 2
    /\ entity.val # << >>
    /\ entity.val # query

\* C3 (amended): for a non-empty query and non-empty keywords extract_entity
\* never throws; its result is non-empty when no keyword is found, and is the
\* empty string exactly when nothing but whitespace follows the matched
\* keyword (the query ends with it); generate_smart_response then looks up
\* the query itself (`entity or query`), which is non-empty.
C3_EmptyOnlyWhenQueryEndsWithKeyword ==
    (entity # Unset /\ query # << >>) =>
        LET ql == lower(query)
            hits == Hits(keywords, ql)
        IN  /\ NonEmptyKeywords(keywords) => entity.exc = "none"
            /\ hits = {} => (entity.exc = "none" /\ entity.val # << >>)
            /\ entity.exc = "none" =>
                /\ entity.val = << >> <=>
                      /\ hits # {}
                      /\ LET k == keywords[MinOf(hits)]
                         IN  \A p \in (MaxOf(ScanOccurrences(k, ql)) + Len(k))..Len(ql) :
                                ql[p] \in Whitespace
                /\ entity_or_query(entity.val, query) # << >>

\* C3 witness: the program's keyword list on a query that ends with a
\* matched keyword returns the empty string.
C3_Witness ==
    /\ keywords = entity_keywords
    /\ query # << >>
    /\ entity = Ret(<< >>)

----------------------------------------------------------------------------
(* Helpers of the chatbot claims.                                          *)

KindSet == {Kinds[i] : i \in 1..Len(Kinds)}

Keys(d) == {d[i].key : i \in 1..Len(d)}

IsVector(a) == a # "error" /\ a # "unused"

\* position of an entry in the index (entries differ in their rows)
PositionOf(e) == CHOOSE p \in 1..Len(index) : index[p] = e

SameScore(q, a, b) == score_ge(q, a, b) /\ score_ge(q, b, a)

\* score(q, a) > 0.3, the threshold of the specification:
\* dot > 0 and 100 * dot^2 > 9 * |q|^2 * |a|^2
AboveThreshold(q, a) == 100 * score_key(q, a) > 9 * dot(q, q) * dot(a, a)

\* a search over an index whose embeddings all have the length of the query
\* vector, the provider having answered the query with a vector
UniformSearch ==
    /\ last.op = "semantic_search"
    /\ index # << >>
    /\ IsVector(last.q_answer)
    /\ \A i \in 1..Len(index) : Len(index[i].embedding) = Len(last.q_answer)

\* C6 (as claimed): a failing embedding call skips that document only:
\* every document whose embedding call succeeded is in the index.
C6_Original_FailsPerDocument ==
    (phase \in {"ready", "returned"}) =>
        LET docs == documents(data)
        IN  \A j \in 1..Len(embed_log) :
                embed_log[j] # "error" =>
                    \E p \in 1..Len(index) : index[p] = index_entry(docs[j], embed_log[j])

\* C7 (as claimed): on the general path a local record is the answer only
\* when the top cosine score exceeds 0.3; otherwise the generation provider
\* is called.
C7_Original_ThresholdFallback ==
    (/\ last.op = "generate_smart_response"
     /\ detect_query_type(last.arg) = "general"
     /\ last.out.exc = "none"
     /\ IsVector(last.q_answer)
     /\ index # << >>
     /\ \A i \in 1..Len(index) : Len(index[i].embedding) = Len(last.q_answer)) =>
        LET confident == \E i \in 1..Len(index) :
                             AboveThreshold(last.q_answer, index[i].embedding)
        IN  /\ last.out.val.src = "database" => confident
            /\ ~confident => last.out.gen_calls = 1

\* C8 (as claimed): no operation the shell invokes propagates an exception,
\* whatever the providers answer and whatever columns or cells are missing.
C8_Original_NoFailureIsFatal == last.out.exc = "none"

\* C4: over an index of uniform dimensionality, semantic_search returns
\* min(k, |index|) index entries, ordered by non-increasing cosine
\* similarity to the query vector, equal scores in index order, and no entry
\* left out ranks before a returned one.
C4_RankSortedStable ==
    UniformSearch =>
        LET r == last.out.val
            q == last.q_answer
        IN  /\ last.out.exc = "none"
            /\ Len(r) = (IF last.top_k < Len(index) THEN last.top_k ELSE Len(index))
            /\ \A i \in 1..Len(r) : \E p \in 1..Len(index) : index[p] = r[i]
            /\ \A i, j \in 1..Len(r) :
                  i < j =>
                      /\ score_ge(q, r[i].embedding, r[j].embedding)
                      /\ SameScore(q, r[i].embedding, r[j].embedding) =>
                            PositionOf(r[i]) < PositionOf(r[j])
            /\ \A p \in 1..Len(index) :
                  (\A i \in 1..Len(r) : r[i] # index[p]) =>
                      \A i \in 1..Len(r) :
                          /\ score_ge(q, r[i].embedding, index[p].embedding)
                          /\ SameScore(q, r[i].embedding, index[p].embedding) =>
                                PositionOf(r[i]) < p

\* C4 witness: a search that cuts the ranking at k and returns two entries
\* of equal score that are not neighbours in the index, ahead of a lower
\* scoring entry that stands between them in the index.
C4_Witness ==
    /\ UniformSearch
    /\ Len(last.out.val) = last.top_k
    /\ last.top_k < Len(index)
    /\ \E i, j, l \in 1..Len(last.out.val) :
          /\ i < j /\ j < l
          /\ SameScore(last.q_answer, last.out.val[i].embedding, last.out.val[j].embedding)
          /\ PositionOf(last.out.val[i]) < PositionOf(last.out.val[l])
          /\ PositionOf(last.out.val[l]) < PositionOf(last.out.val[j])
          /\ score_gt(last.q_answer, last.out.val[j].embedding, last.out.val[l].embedding)

\* C5: on an empty index semantic_search returns the empty sequence and
\* raises nothing, for every query, every answer of the provider and every k.
C5_EmptyIndexEmptyResult ==
    (last.op = "semantic_search" /\ index = << >>) =>
        (last.out.exc = "none" /\ last.out.val = << >>)

\* C5 witness: a search on the empty index left by a failed build of a
\* non-empty corpus.
C5_Witness ==
    /\ last.op = "semantic_search"
    /\ index = << >>
    /\ documents(data) # << >>
    /\ last.out.val = << >>

\* C9: whichever of the four files are absent, load_csv_data does not fail,
\* and when the files that exist can be parsed the corpus holds exactly
\* their collections, in the order conditions, drugs, symptoms, solutions.
C9_MissingFilesTolerated ==
    /\ phase # "crashed"
    /\ (phase # "new" /\ \A k \in KindSet : files[k].state # "malformed") =>
          /\ Keys(data) = {k \in KindSet : files[k].state = "ok"}
          /\ \A i \in 1..Len(data) :
                /\ data[i].df.rows = files[data[i].key].rows
                /\ data[i].df.columns = files[data[i].key].columns
          /\ \A i, j \in 1..Len(data) : i < j => data[i].key # data[j].key

\* C9 witness: a directory in which the first and the last file are absent
\* and the two others exist, loaded.
C9_Witness ==
    /\ phase = "loaded"
    /\ files["conditions"].state = "absent"
    /\ files["solutions"].state = "absent"
    /\ Keys(data) = {"drugs", "symptoms"}


LookupOps == {"get_condition_info", "get_drug_info", "get_symptom_info"}

\* C11: one call of generate_smart_response or of a lookup operation makes at
\* most one embedding call and at most one generation call, whatever the
\* query type and whether or not a local record matches; a lookup makes no
\* embedding call at all.
C11_AtMostTwoProviderCalls ==
    (last.op \in LookupOps \cup {"generate_smart_response"}) =>
        /\ last.out.embed_calls <= 1
        /\ last.out.gen_calls <= 1
        /\ last.op \in LookupOps => last.out.embed_calls = 0

\* C11 witness: a general question whose search embedded the query, found
\* nothing to answer from, and was answered by the generation provider
\* whose call failed: both provider calls were made.
C11_Witness ==
    /\ last.op = "generate_smart_response"
    /\ detect_query_type(last.arg) = "general"
    /\ index # << >>
    /\ last.out.embed_calls = 1
    /\ last.out.gen_calls = 1
    /\ last.gen_answer = "error"
    /\ last.out.exc = "none"

\* the collection a lookup operation reads
CollectionOf(op) ==
    CASE op = "get_condition_info" -> "conditions"
      [] op = "get_drug_info" -> "drugs"
      [] op = "get_symptom_info" -> "symptoms"

\* the records of a collection whose cell in one of the columns holds the
\* lower-cased query as a substring, compared without regard to case
Matching(df, cols, q) ==
    {i \in 1..Len(df.rows) :
        \E col \in cols \cap df.columns :
            /\ ~df.rows[i][col].nan
            /\ contains(lower(q), lower(df.rows[i][col].text))}

\* the answer a lookup operation gives from a record
Formatted(op, row) ==
    CASE op = "get_condition_info" -> format_condition_response(row)
      [] op = "get_drug_info" -> format_drug_response(row)
      [] op = "get_symptom_info" -> format_symptom_response(row)

\* C13 as stated: a lookup by name answers from the first record in
\* collection order whose name contains the lower-cased query, and calls the
\* generation provider if and only if the collection is absent or no
\* record's name contains the query.
C13_Original_FirstNameMatchElseGenerate ==
    (last.op \in LookupOps) =>
        LET key == CollectionOf(last.op)
            present == has_key(data, key)
            df == value_of(data, key)
            match == IF present
                     THEN Matching(df, {name_column(key)}, last.arg)
                     ELSE {}
        IN  IF match # {}
            THEN /\ last.out = Formatted(last.op, first_row(df, match))
                 /\ last.out.gen_calls = 0
            ELSE last.out.gen_calls = 1
-----------------------------------------------------------------------------
(* The conversation of a session.                                          *)

\* C10 as stated: the conversation is append-only between clears.  Every
\* press of Smart Answer, Medication Info or Condition Info with non-blank
\* input appends a user turn and an assistant turn at the end and leaves the
\* earlier turns as they were, nothing else changes the conversation, and it
\* becomes empty only through Clear Chat History
C10_Original_AppendOnlyBetweenClears ==
    [][ /\ (event'.button \in TurnButtons /\ strip(event'.input) # << >>) =>
              /\ Len(messages') = Len(messages) + 2
              /\ SubSeq(messages', 1, Len(messages)) = messages
              /\ messages'[Len(messages) + 1].role = "user"
              /\ messages'[Len(messages) + 2].role = "assistant"
        /\ (messages # << >> /\ messages' = << >>) => event'.button = "clear"
        /\ event'.button \notin (TurnButtons \cup {"clear"}) => messages' = messages
      ]_vars

\* C12: the index is built once per session and is immutable thereafter.
\* Once the chatbot is constructed, no step (a classification, a lookup, a
\* search, a smart response, a chat turn, a clearing of the history, an
\* edit of the question) changes the index, the loaded corpus or the record
\* of the embedding calls of the build, and the chatbot is never
\* constructed again.
C12_IndexBuiltOnceImmutable ==
    [][ (phase \in {"ready", "returned"}) =>
            ( /\ index' = index
              /\ data' = data
              /\ embed_log' = embed_log
              /\ phase' \in {"ready", "returned"} ) ]_vars

\* C12 witness: a session whose chatbot holds a non-empty index and corpus,
\* after two chat turns, the last of them a Smart Answer.
C12_Witness ==
    /\ phase = "ready"
    /\ index # << >>
    /\ data # << >>
    /\ Len(messages) = 4
    /\ event.button = "smart"
    /\ event.raised = "none"

\* C14 as stated: in every session state the conversation has even length
\* and alternates user, assistant, user, assistant from a user turn on, and
\* a press of Smart Answer, Medication Info or Condition Info with an empty
\* or whitespace-only question leaves the conversation as it was (the
\* handler returns before it calls the chatbot, so no provider is called).
C14_Original_EvenAlternating ==
    [][ /\ Len(messages') % 2 = 0
        /\ \A i \in 1..Len(messages') :
              messages'[i].role = (IF i % 2 = 1 THEN "user" ELSE "assistant")
        /\ (event'.button \in TurnButtons /\ strip(event'.input) = << >>) =>
              messages' = messages
      ]_vars

====
